---- MODULE Spec2Model ----
(***************************************************************************)
(* Model of go-utils-compare (src/main.go): the comparison of two cron job *)
(* configurations, "production" and "development".                         *)
(*                                                                         *)
(* Text that the program inspects character by character (commands and     *)
(* schedules) is a sequence of one-character strings; job names and the    *)
(* difference types are plain strings.                                     *)
(***************************************************************************)
EXTENDS Integers, Sequences, FiniteSets, TLC

VARIABLES
    prodConfig,     \* *Config parsed from the first file
    devConfig,      \* *Config parsed from the second file
    jsonOutput,     \* the --json flag
    pc,             \* position in main / compareCommands
    prodCronJobs,   \* map[string]CronJob of production
    devCronJobs,    \* map[string]CronJob of development
    prodRange,      \* keys of prodCronJobs its range loop has not visited yet
    devRange,       \* keys of devCronJobs its range loop has not visited yet
    differences,    \* []JobDifference of the JSON branch
    stdout,         \* the JSON document printed by the JSON branch
    w,              \* rows written to the tabwriter by the table branch
    command,        \* argument of normalizeCommand (normalizer harness)
    normalized,     \* results of the successive normalizeCommand calls
    calls           \* number of normalizeCommand calls made by the harness

vars == <<prodConfig, devConfig, jsonOutput, pc, prodCronJobs, devCronJobs,
          prodRange, devRange, differences, stdout, w,
          command, normalized, calls>>

cmpVars == <<prodConfig, devConfig, jsonOutput, pc, prodCronJobs, devCronJobs,
             prodRange, devRange, differences, stdout, w>>

normVars == <<command, normalized, calls>>

----------------------------------------------------------------------------
(* Bounds and input domains *)

MaxJobs == 3      \* jobs in the two files together (each file, when compared with itself)
MaxLen == 4       \* characters of a command handed to the normalizer harness
MaxCalls == 2     \* successive normalizeCommand calls of the harness

Whitespace == {" ", "\t"}
Alphabet == {"a", "b", " ", "\t"}

Names == {"j1", "j2"}
Commands == {<<>>, <<"a">>, <<" ", "a">>}
Schedules == {<<"1">>, <<" ", "1">>}

Jobs == [Command : Commands, Name : Names, Schedule : Schedules]

JobLists(n) == [1..n -> Jobs]

InputPairs ==
    UNION { JobLists(n) \X JobLists(m) : <<n, m>> \in
              {p \in (0..MaxJobs) \X (0..MaxJobs) : p[1] + p[2] <= MaxJobs} }

SelfPairs == UNION { {<<l, l>> : l \in JobLists(n)} : n \in 0..MaxJobs }

Strings == UNION { [1..n -> Alphabet] : n \in 0..MaxLen }

----------------------------------------------------------------------------
(* strings.Fields, strings.Join and normalizeCommand *)

\* strings.Fields: the maximal runs of non-whitespace characters of s, in order.
\* i is the position read next, cur the field being read, acc the fields found.
RECURSIVE FieldsFrom(_, _, _, _)
FieldsFrom(s, i, cur, acc) ==
    IF i > Len(s)
    THEN IF cur = <<>> THEN acc ELSE Append(acc, cur)
    ELSE IF s[i] \in Whitespace
         THEN FieldsFrom(s, i + 1, <<>>, IF cur = <<>> THEN acc ELSE Append(acc, cur))
         ELSE FieldsFrom(s, i + 1, Append(cur, s[i]), acc)

Fields(s) == FieldsFrom(s, 1, <<>>, <<>>)

\* strings.Join: the elements concatenated with sep between neighbours.
RECURSIVE Join(_, _)
Join(elems, sep) ==
    IF elems = <<>> THEN <<>>
    ELSE IF Len(elems) = 1 THEN elems[1]
    ELSE elems[1] \o sep \o Join(Tail(elems), sep)

\* A normalizer that replaces each pair of spaces by one space in a single
\* left-to-right pass (strings.ReplaceAll(command, "  ", " ")).
RECURSIVE ReplaceDoubleSpace(_)
ReplaceDoubleSpace(s) ==
    IF Len(s) < 2 THEN s
    ELSE IF s[1] = " " /\ s[2] = " "
         THEN <<" ">> \o ReplaceDoubleSpace(SubSeq(s, 3, Len(s)))
         ELSE <<s[1]>> \o ReplaceDoubleSpace(Tail(s))

normalizeCommand_replaceAll(cmd) == ReplaceDoubleSpace(cmd)

normalizeCommand(cmd) == Join(Fields(cmd), <<" ">>)

----------------------------------------------------------------------------
(* createCronJobMap *)

\* jobMap[key] = job
MapPut(jobMap, key, job) ==
    [k \in (DOMAIN jobMap) \cup {key} |-> IF k = key THEN job ELSE jobMap[k]]

\* the range loop of createCronJobMap from position i on
RECURSIVE InsertFrom(_, _, _)
InsertFrom(cronJobs, i, jobMap) ==
    IF i > Len(cronJobs) THEN jobMap
    ELSE InsertFrom(cronJobs, i + 1, MapPut(jobMap, cronJobs[i].Name, cronJobs[i]))

\* a loop that keeps the first job of a name instead of the last
RECURSIVE InsertFirstFrom(_, _, _)
InsertFirstFrom(cronJobs, i, jobMap) ==
    IF i > Len(cronJobs) THEN jobMap
    ELSE InsertFirstFrom(cronJobs, i + 1,
            IF cronJobs[i].Name \in DOMAIN jobMap THEN jobMap
            ELSE MapPut(jobMap, cronJobs[i].Name, cronJobs[i]))

createCronJobMap_firstWins(cronJobs) == InsertFirstFrom(cronJobs, 1, <<>>)

createCronJobMap(cronJobs) == InsertFrom(cronJobs, 1, <<>>)

----------------------------------------------------------------------------
(* JobDifference and its JSON encoding *)

CommandDifference == "Command Difference"
ScheduleDifference == "Schedule Difference"
ProdOnly == "Exists in production but not in development"
DevOnly == "Exists in development but not in production"

JobDifference(name, type, production, development) ==
    [CronName |-> name, Type |-> type,
     Production |-> production, Development |-> development]

\* encoding/json on JobDifference: the keys cron_name and type always, the keys
\* production and development only when the field is not the empty string
\* (omitempty).
MarshalJobDifference(d) ==
    LET keys == {"cron_name", "type"}
                \cup (IF d.Production # <<>> THEN {"production"} ELSE {})
                \cup (IF d.Development # <<>> THEN {"development"} ELSE {})
    IN [k \in keys |->
          CASE k = "cron_name" -> d.CronName
            [] k = "type" -> d.Type
            [] k = "production" -> d.Production
            [] OTHER -> d.Development]

\* json.MarshalIndent of the differences slice: a nil slice encodes as null,
\* any other as the array of its encoded elements.
MarshalIndent(ds) ==
    IF ds = <<>> THEN [null |-> TRUE, array |-> <<>>]
    ELSE [null |-> FALSE, array |-> [i \in 1..Len(ds) |-> MarshalJobDifference(ds[i])]]

NoOutput == [null |-> FALSE, array |-> <<>>]

----------------------------------------------------------------------------
(* The body of the range loops of compareCommands *)

\* the command test of both branches; the variant compares the raw text
CommandsDiffer_raw(prodJob, devJob) == prodJob.Command # devJob.Command

CommandsDiffer(prodJob, devJob) ==
    normalizeCommand(prodJob.Command) # normalizeCommand(devJob.Command)

\* the schedule test of both branches
SchedulesDiffer(prodJob, devJob) == prodJob.Schedule # devJob.Schedule

\* JSON branch, name found in devCronJobs; the variant of the schedule record
\* hangs the schedule test on the else of the command test
CommandRecord(name, prodJob, devJob) ==
    IF CommandsDiffer(prodJob, devJob)
    THEN <<JobDifference(name, CommandDifference, prodJob.Command, devJob.Command)>>
    ELSE <<>>

ScheduleRecord_else(name, prodJob, devJob) ==
    IF ~CommandsDiffer(prodJob, devJob) /\ SchedulesDiffer(prodJob, devJob)
    THEN <<JobDifference(name, ScheduleDifference, prodJob.Schedule, devJob.Schedule)>>
    ELSE <<>>

ScheduleRecord(name, prodJob, devJob) ==
    IF SchedulesDiffer(prodJob, devJob)
    THEN <<JobDifference(name, ScheduleDifference, prodJob.Schedule, devJob.Schedule)>>
    ELSE <<>>

\* JSON branch, name not found in devCronJobs.  The variant looks the command
\* up among the development jobs and reports a rename instead.
ProdOnlyRecord_rename(name, prodJob) ==
    IF \E n \in DOMAIN devCronJobs : devCronJobs[n].Command = prodJob.Command
    THEN <<JobDifference(name, "Renamed in development", <<>>, <<>>)>>
    ELSE <<JobDifference(name, ProdOnly, <<>>, <<>>)>>

ProdOnlyRecord(name, prodJob) == <<JobDifference(name, ProdOnly, <<>>, <<>>)>>

\* JSON branch, second loop.  The variants drop the negation of the test, and
\* report the wrong side.
DevOnlyRecord_noNegation(name) ==
    IF name \in DOMAIN prodCronJobs
    THEN <<JobDifference(name, DevOnly, <<>>, <<>>)>>
    ELSE <<>>

DevOnlyRecord_wrongSide(name) ==
    IF name \notin DOMAIN prodCronJobs
    THEN <<JobDifference(name, ProdOnly, <<>>, <<>>)>>
    ELSE <<>>

DevOnlyRecord(name) ==
    IF name \notin DOMAIN prodCronJobs
    THEN <<JobDifference(name, DevOnly, <<>>, <<>>)>>
    ELSE <<>>

\* Table branch: the text of a cell is the sequence of its formatted pieces,
\* each the label and the two values that fmt.Sprintf puts into it.
Piece(label, production, development) ==
    [Label |-> label, Production |-> production, Development |-> development]

TableCell_commandOnly(name, prodJob) ==
    IF name \in DOMAIN devCronJobs
    THEN LET devJob == devCronJobs[name] IN
         IF CommandsDiffer(prodJob, devJob)
         THEN <<Piece("Command difference", prodJob.Command, devJob.Command)>>
         ELSE IF SchedulesDiffer(prodJob, devJob)
              THEN <<Piece("Schedule difference", prodJob.Schedule, devJob.Schedule)>>
              ELSE <<>>
    ELSE <<Piece(ProdOnly, <<>>, <<>>)>>

TableCell(name, prodJob) ==
    IF name \in DOMAIN devCronJobs
    THEN LET devJob == devCronJobs[name] IN
         (IF CommandsDiffer(prodJob, devJob)
          THEN <<Piece("Command difference", prodJob.Command, devJob.Command)>>
          ELSE <<>>)
         \o
         (IF SchedulesDiffer(prodJob, devJob)
          THEN <<Piece("Schedule difference", prodJob.Schedule, devJob.Schedule)>>
          ELSE <<>>)
    ELSE <<Piece(ProdOnly, <<>>, <<>>)>>

Row(name, cell) == [CronName |-> name, Difference |-> cell]

----------------------------------------------------------------------------
(* main and compareCommands *)

Init ==
    /\ \E p \in InputPairs :
          /\ prodConfig = [CronJobs |-> p[1]]
          /\ devConfig = [CronJobs |-> p[2]]
    /\ jsonOutput \in BOOLEAN
    /\ pc = "main"
    /\ prodCronJobs = <<>>
    /\ devCronJobs = <<>>
    /\ prodRange = {}
    /\ devRange = {}
    /\ differences = <<>>
    /\ stdout = NoOutput
    /\ w = <<>>
    /\ command = <<>>
    /\ normalized = <<>>
    /\ calls = 0

\* the same file given as both arguments
SelfInit ==
    /\ \E p \in SelfPairs :
          /\ prodConfig = [CronJobs |-> p[1]]
          /\ devConfig = [CronJobs |-> p[2]]
    /\ jsonOutput \in BOOLEAN
    /\ pc = "main"
    /\ prodCronJobs = <<>>
    /\ devCronJobs = <<>>
    /\ prodRange = {}
    /\ devRange = {}
    /\ differences = <<>>
    /\ stdout = NoOutput
    /\ w = <<>>
    /\ command = <<>>
    /\ normalized = <<>>
    /\ calls = 0

\* compareCommands entry: the two name maps are built, the first loop starts
BuildMaps ==
    /\ pc = "main"
    /\ prodCronJobs' = createCronJobMap(prodConfig.CronJobs)
    /\ devCronJobs' = createCronJobMap(devConfig.CronJobs)
    /\ prodRange' = DOMAIN prodCronJobs'
    /\ devRange' = {}
    /\ pc' = "prodLoop"
    /\ UNCHANGED <<prodConfig, devConfig, jsonOutput, differences, stdout, w>>
    /\ UNCHANGED normVars

\* the iteration below with the production-only record assigned to the list
\* instead of appended to it
JsonProdStep_assign ==
    /\ pc = "prodLoop"
    /\ jsonOutput
    /\ \E name \in prodRange :
          LET prodJob == prodCronJobs[name] IN
          /\ differences' =
                IF name \in DOMAIN devCronJobs
                THEN differences
                     \o CommandRecord(name, prodJob, devCronJobs[name])
                     \o ScheduleRecord(name, prodJob, devCronJobs[name])
                ELSE ProdOnlyRecord(name, prodJob)
          /\ prodRange' = prodRange \ {name}
    /\ UNCHANGED <<prodConfig, devConfig, jsonOutput, pc, prodCronJobs,
                   devCronJobs, devRange, stdout, w>>
    /\ UNCHANGED normVars

\* one iteration of "for name, prodJob := range prodCronJobs", JSON branch;
\* the map hands out its keys in any order
JsonProdStep ==
    /\ pc = "prodLoop"
    /\ jsonOutput
    /\ \E name \in prodRange :
          LET prodJob == prodCronJobs[name] IN
          /\ differences' =
                IF name \in DOMAIN devCronJobs
                THEN differences
                     \o CommandRecord(name, prodJob, devCronJobs[name])
                     \o ScheduleRecord(name, prodJob, devCronJobs[name])
                ELSE differences \o ProdOnlyRecord(name, prodJob)
          /\ prodRange' = prodRange \ {name}
    /\ UNCHANGED <<prodConfig, devConfig, jsonOutput, pc, prodCronJobs,
                   devCronJobs, devRange, stdout, w>>
    /\ UNCHANGED normVars

\* one iteration of "for name, prodJob := range prodCronJobs", table branch
TableProdStep ==
    /\ pc = "prodLoop"
    /\ ~jsonOutput
    /\ \E name \in prodRange :
          LET cell == TableCell(name, prodCronJobs[name]) IN
          /\ w' = IF cell # <<>> THEN Append(w, Row(name, cell)) ELSE w
          /\ prodRange' = prodRange \ {name}
    /\ UNCHANGED <<prodConfig, devConfig, jsonOutput, pc, prodCronJobs,
                   devCronJobs, devRange, differences, stdout>>
    /\ UNCHANGED normVars

\* the first loop is exhausted, the second starts
ProdLoopEnd ==
    /\ pc = "prodLoop"
    /\ prodRange = {}
    /\ devRange' = DOMAIN devCronJobs
    /\ pc' = "devLoop"
    /\ UNCHANGED <<prodConfig, devConfig, jsonOutput, prodCronJobs, devCronJobs,
                   prodRange, differences, stdout, w>>
    /\ UNCHANGED normVars

\* one iteration of "for name := range devCronJobs", JSON branch
JsonDevStep ==
    /\ pc = "devLoop"
    /\ jsonOutput
    /\ \E name \in devRange :
          /\ differences' = differences \o DevOnlyRecord(name)
          /\ devRange' = devRange \ {name}
    /\ UNCHANGED <<prodConfig, devConfig, jsonOutput, pc, prodCronJobs,
                   devCronJobs, prodRange, stdout, w>>
    /\ UNCHANGED normVars

\* one iteration of "for name := range devCronJobs", table branch
TableDevStep ==
    /\ pc = "devLoop"
    /\ ~jsonOutput
    /\ \E name \in devRange :
          /\ w' = IF name \notin DOMAIN prodCronJobs
                  THEN Append(w, Row(name, <<Piece(DevOnly, <<>>, <<>>)>>))
                  ELSE w
          /\ devRange' = devRange \ {name}
    /\ UNCHANGED <<prodConfig, devConfig, jsonOutput, pc, prodCronJobs,
                   devCronJobs, prodRange, differences, stdout>>
    /\ UNCHANGED normVars

\* json.MarshalIndent and fmt.Println
JsonPrint ==
    /\ pc = "devLoop"
    /\ jsonOutput
    /\ devRange = {}
    /\ stdout' = MarshalIndent(differences)
    /\ pc' = "done"
    /\ UNCHANGED <<prodConfig, devConfig, jsonOutput, prodCronJobs, devCronJobs,
                   prodRange, devRange, differences, w>>
    /\ UNCHANGED normVars

\* w.Flush()
TableFlush ==
    /\ pc = "devLoop"
    /\ ~jsonOutput
    /\ devRange = {}
    /\ pc' = "done"
    /\ UNCHANGED <<prodConfig, devConfig, jsonOutput, prodCronJobs, devCronJobs,
                   prodRange, devRange, differences, stdout, w>>
    /\ UNCHANGED normVars

Next ==
    \/ BuildMaps
    \/ JsonProdStep
    \/ TableProdStep
    \/ ProdLoopEnd
    \/ JsonDevStep
    \/ TableDevStep
    \/ JsonPrint
    \/ TableFlush

Spec == Init /\ [][Next]_vars

SelfSpec == SelfInit /\ [][Next]_vars

\* The run is sequential code without blocking calls: it keeps taking steps.
FairSpec == Init /\ [][Next]_vars /\ WF_vars(Next)

----------------------------------------------------------------------------
(* Normalizer harness: normalizeCommand applied repeatedly to its own result *)

NormInit ==
    /\ command \in Strings
    /\ normalized = <<>>
    /\ calls = 0
    /\ prodConfig = [CronJobs |-> <<>>]
    /\ devConfig = [CronJobs |-> <<>>]
    /\ jsonOutput = FALSE
    /\ pc = "normalize"
    /\ prodCronJobs = <<>>
    /\ devCronJobs = <<>>
    /\ prodRange = {}
    /\ devRange = {}
    /\ differences = <<>>
    /\ stdout = NoOutput
    /\ w = <<>>

Normalize ==
    /\ pc = "normalize"
    /\ calls < MaxCalls
    /\ normalized' = Append(normalized,
                            normalizeCommand(IF calls = 0 THEN command
                                             ELSE normalized[calls]))
    /\ calls' = calls + 1
    /\ UNCHANGED command
    /\ UNCHANGED cmpVars

NormNext == Normalize

NormSpec == NormInit /\ [][NormNext]_vars

----------------------------------------------------------------------------
(* Vocabulary of the properties *)

\* the run has printed its result
Done == pc = "done"

\* positions of the records of the given name and type in the differences list
RecordsOf(name, type) ==
    {i \in 1..Len(differences) :
        differences[i].CronName = name /\ differences[i].Type = type}

\* positions of all records of the given name
RecordsNamed(name) ==
    {i \in 1..Len(differences) : differences[i].CronName = name}

\* the difference kinds of the design: a missing-in-other record is either of
\* the two "Exists in ... but not in ..." types, a renamed-in-other record is a
\* record of a type that is neither a command, a schedule nor a missing one
IsMissingInOther(d) == d.Type \in {ProdOnly, DevOnly}
IsRenamedInOther(d) ==
    d.Type \notin {CommandDifference, ScheduleDifference, ProdOnly, DevOnly}

\* the last job of the given name in a job list
LastJob(cronJobs, name) ==
    LET last == CHOOSE i \in 1..Len(cronJobs) :
                    /\ cronJobs[i].Name = name
                    /\ \A j \in (i + 1)..Len(cronJobs) : cronJobs[j].Name # name
    IN cronJobs[last]

NamesOf(cronJobs) == {cronJobs[i].Name : i \in 1..Len(cronJobs)}

\* some job of the list has exactly this command text
HasCommand(cronJobs, cmd) == \E i \in 1..Len(cronJobs) : cronJobs[i].Command = cmd

\* the differences between the two files as a function of the files alone:
\* per name, the last job of that name on each side is compared
ExpectedDifferences ==
    LET A == prodConfig.CronJobs
        B == devConfig.CronJobs
        both == NamesOf(A) \cap NamesOf(B)
    IN    {JobDifference(n, CommandDifference,
                         LastJob(A, n).Command, LastJob(B, n).Command) :
             n \in {m \in both : normalizeCommand(LastJob(A, m).Command)
                                 # normalizeCommand(LastJob(B, m).Command)}}
     \cup {JobDifference(n, ScheduleDifference,
                         LastJob(A, n).Schedule, LastJob(B, n).Schedule) :
             n \in {m \in both : LastJob(A, m).Schedule # LastJob(B, m).Schedule}}
     \cup {JobDifference(n, ProdOnly, <<>>, <<>>) : n \in NamesOf(A) \ NamesOf(B)}
     \cup {JobDifference(n, DevOnly, <<>>, <<>>) : n \in NamesOf(B) \ NamesOf(A)}

\* a finding as a reader takes it from either output: name, type and the two
\* values, a value that is not printed being read as the empty string
Finding(name, type, production, development) ==
    <<name, type, production, development>>

JsonFindings(doc) ==
    {Finding(doc.array[i]["cron_name"], doc.array[i]["type"],
             IF "production" \in DOMAIN doc.array[i]
             THEN doc.array[i]["production"] ELSE <<>>,
             IF "development" \in DOMAIN doc.array[i]
             THEN doc.array[i]["development"] ELSE <<>>) :
        i \in 1..Len(doc.array)}

TypeOfLabel(label) ==
    CASE label = "Command difference" -> CommandDifference
      [] label = "Schedule difference" -> ScheduleDifference
      [] OTHER -> label

TableFindings(rows) ==
    UNION {{Finding(rows[i].CronName, TypeOfLabel(rows[i].Difference[k].Label),
                    rows[i].Difference[k].Production,
                    rows[i].Difference[k].Development) :
               k \in 1..Len(rows[i].Difference)} :
           i \in 1..Len(rows)}

ExpectedFindings ==
    {Finding(d.CronName, d.Type, d.Production, d.Development) :
        d \in ExpectedDifferences}

----------------------------------------------------------------------------
(* Properties *)

\* C1: comparing a job collection with itself (the empty collection and
\* collections with repeated names included) produces no difference record at
\* all, in neither output mode.
C1_SelfCompareEmpty ==
    /\ differences = <<>>
    /\ w = <<>>
    /\ stdout.array = <<>>

C1_Witness ==
    /\ Done
    /\ prodConfig = devConfig
    /\ \E i, j \in 1..Len(prodConfig.CronJobs) :
          /\ i < j
          /\ prodConfig.CronJobs[i].Name = prodConfig.CronJobs[j].Name
          /\ prodConfig.CronJobs[i] # prodConfig.CronJobs[j]

C3_CommandDiff ==
    (Done /\ jsonOutput) =>
        \A n \in DOMAIN prodCronJobs \cap DOMAIN devCronJobs :
           /\ Cardinality(RecordsOf(n, CommandDifference)) =
                 IF normalizeCommand(prodCronJobs[n].Command)
                    # normalizeCommand(devCronJobs[n].Command) THEN 1 ELSE 0
           /\ \A i \in RecordsOf(n, CommandDifference) :
                 /\ differences[i].Production = prodCronJobs[n].Command
                 /\ differences[i].Development = devCronJobs[n].Command

\* a name whose commands differ only in whitespace and has no command record,
\* while its schedules differ and are reported
C3_Witness ==
    /\ Done
    /\ jsonOutput
    /\ \E n \in DOMAIN prodCronJobs \cap DOMAIN devCronJobs :
          /\ prodCronJobs[n].Command # devCronJobs[n].Command
          /\ RecordsOf(n, CommandDifference) = {}
          /\ RecordsOf(n, ScheduleDifference) # {}

\* C4: for a name in both name maps there is exactly one schedule-difference
\* record when the schedule strings are not exactly equal and none when they
\* are, whether or not there is a command-difference record for the name; the
\* name has at most two records, never two of one type.
C4_ScheduleDiff ==
    (Done /\ jsonOutput) =>
        \A n \in DOMAIN prodCronJobs \cap DOMAIN devCronJobs :
           /\ Cardinality(RecordsOf(n, ScheduleDifference)) =
                 IF prodCronJobs[n].Schedule # devCronJobs[n].Schedule THEN 1 ELSE 0
           /\ \A i \in RecordsOf(n, ScheduleDifference) :
                 /\ differences[i].Production = prodCronJobs[n].Schedule
                 /\ differences[i].Development = devCronJobs[n].Schedule
           /\ Cardinality(RecordsOf(n, CommandDifference)) <= 1
           /\ RecordsNamed(n) =
                 RecordsOf(n, CommandDifference) \cup RecordsOf(n, ScheduleDifference)

\* a name with both records, whose schedules differ only in whitespace
C4_Witness ==
    /\ Done
    /\ jsonOutput
    /\ \E n \in DOMAIN prodCronJobs \cap DOMAIN devCronJobs :
          /\ Cardinality(RecordsNamed(n)) = 2
          /\ RecordsOf(n, CommandDifference) # {}
          /\ RecordsOf(n, ScheduleDifference) # {}
          /\ normalizeCommand(prodCronJobs[n].Schedule)
             = normalizeCommand(devCronJobs[n].Schedule)

\* C5: a name that is in one name map only and whose command is the command of
\* no job of the other side has exactly one record, the missing-in-other
\* record of the side it is on, whichever argument that side is (the inputs
\* range over all ordered pairs, so each comparison occurs with its swap).
C5_MissingSymmetric ==
    (Done /\ jsonOutput) =>
        /\ \A n \in DOMAIN prodCronJobs \ DOMAIN devCronJobs :
              ~HasCommand(devConfig.CronJobs, prodCronJobs[n].Command) =>
                 /\ Cardinality(RecordsOf(n, ProdOnly)) = 1
                 /\ RecordsNamed(n) = RecordsOf(n, ProdOnly)
        /\ \A n \in DOMAIN devCronJobs \ DOMAIN prodCronJobs :
              ~HasCommand(prodConfig.CronJobs, devCronJobs[n].Command) =>
                 /\ Cardinality(RecordsOf(n, DevOnly)) = 1
                 /\ RecordsNamed(n) = RecordsOf(n, DevOnly)

C5_Witness ==
    /\ Done
    /\ jsonOutput
    /\ \E n \in DOMAIN devCronJobs \ DOMAIN prodCronJobs :
          /\ prodConfig.CronJobs # <<>>
          /\ ~HasCommand(prodConfig.CronJobs, devCronJobs[n].Command)
          /\ Cardinality(RecordsOf(n, DevOnly)) = 1

\* C6: every command-difference or schedule-difference record of the printed
\* document has both its production and its development value, also when a
\* command or schedule is the empty string.
C6_BothValuesPopulated ==
    \A i \in 1..Len(stdout.array) :
        stdout.array[i]["type"] \in {CommandDifference, ScheduleDifference} =>
            {"production", "development"} \subseteq DOMAIN stdout.array[i]

\* C7: normalizing a normalized command changes nothing, and a normalized
\* command is its fields joined by single spaces: no tab, no leading or
\* trailing space, no two spaces in a row.
C7_NormalizeIdempotent ==
    /\ calls = MaxCalls => normalized[MaxCalls] = normalized[1]
    /\ calls >= 1 =>
          LET r == normalized[1] IN
          /\ \A i \in 1..Len(r) : r[i] # "\t"
          /\ r # <<>> => (r[1] # " " /\ r[Len(r)] # " ")
          /\ \A i \in 1..(Len(r) - 1) : ~(r[i] = " " /\ r[i + 1] = " ")

C7_Witness ==
    /\ calls = MaxCalls
    /\ normalized[1] # command
    /\ \E i \in 1..(Len(command) - 1) :
          command[i] \in Whitespace /\ command[i + 1] \in Whitespace
    /\ \E i \in 1..Len(normalized[1]) : normalized[1][i] = " "

\* C8: once built, each name map has exactly the names of its job list and
\* maps each to the last job of that name in the list; the records of a name
\* are those of the last jobs alone.
C8_LastWriteWins ==
    /\ pc # "main" =>
          /\ DOMAIN prodCronJobs = NamesOf(prodConfig.CronJobs)
          /\ DOMAIN devCronJobs = NamesOf(devConfig.CronJobs)
          /\ \A n \in DOMAIN prodCronJobs :
                prodCronJobs[n] = LastJob(prodConfig.CronJobs, n)
          /\ \A n \in DOMAIN devCronJobs :
                devCronJobs[n] = LastJob(devConfig.CronJobs, n)
    /\ (Done /\ jsonOutput) =>
          \A n \in NamesOf(prodConfig.CronJobs) \cap NamesOf(devConfig.CronJobs) :
             LET a == LastJob(prodConfig.CronJobs, n)
                 b == LastJob(devConfig.CronJobs, n)
             IN /\ RecordsOf(n, CommandDifference) # {}
                   <=> normalizeCommand(a.Command) # normalizeCommand(b.Command)
                /\ RecordsOf(n, ScheduleDifference) # {}
                   <=> a.Schedule # b.Schedule

\* an earlier duplicate that equals the other side's job does not suppress the
\* records of the last one
C8_Witness ==
    /\ Done
    /\ jsonOutput
    /\ \E i, j \in 1..Len(prodConfig.CronJobs) :
          /\ i < j
          /\ prodConfig.CronJobs[i].Name = prodConfig.CronJobs[j].Name
          /\ prodConfig.CronJobs[i].Name \in DOMAIN devCronJobs
          /\ devCronJobs[prodConfig.CronJobs[i].Name] = prodConfig.CronJobs[i]
          /\ Cardinality(RecordsNamed(prodConfig.CronJobs[i].Name)) = 2

\* C9: whatever order the two range loops visit the names in, the run ends,
\* it can always take its next step until it has, and the set of records it
\* ends with is the one the two inputs determine.
C9_ResultSetDeterministic ==
    /\ <>Done
    /\ [](~Done => ENABLED Next)
    /\ []((Done /\ jsonOutput) =>
            {differences[i] : i \in 1..Len(differences)} = ExpectedDifferences)

\* two names were visited in the order opposite to the alphabetical one
C9_Witness ==
    /\ Done
    /\ jsonOutput
    /\ Len(differences) >= 2
    /\ differences[1].CronName = "j2"
    /\ differences[2].CronName = "j1"
    /\ differences[1].Type = ProdOnly

\* C10: both output modes report the findings the inputs determine, hence the
\* same ones: name, type, production value and development value.
C10_ModesAgree ==
    /\ (Done /\ jsonOutput) => JsonFindings(stdout) = ExpectedFindings
    /\ (Done /\ ~jsonOutput) => TableFindings(w) = ExpectedFindings

C10_Witness ==
    /\ Done
    /\ ~jsonOutput
    /\ \E i \in 1..Len(w) : Len(w[i].Difference) = 2
    /\ \E i \in 1..Len(w) : w[i].Difference[1].Label = DevOnly
    /\ \E i \in 1..Len(w) : w[i].Difference[1].Production = <<>>
                            /\ w[i].Difference[1].Label = "Command difference"

====
